---- MODULE Spec2Model ----
(***************************************************************************)
(* Model of the iterative query-refinement loop of sql-RAG.py: main(),     *)
(* execute_sql(), extract_sql() and the call to the language model.        *)
(* Text is a sequence of one-character strings, so that strip, startswith, *)
(* replace and the regular expression of extract_sql are computed and not  *)
(* assumed.                                                                *)
(***************************************************************************)
EXTENDS Integers, Sequences, FiniteSets, TLC

VARIABLES
  messages,        \* the conversation history passed to the model
  total_queries,   \* the attempt counter of the inner loop
  assistant_reply, \* the reply of the current iteration
  sql_queries,     \* the commands extracted from assistant_reply
  next_query,      \* position of the for loop over sql_queries
  printed,         \* what was printed after "Assistant:" for this question
  db,              \* the rows of the database behind conn
  pc,              \* where main() stands
  status,          \* the controller state of the current question
  calls,           \* call_gpt calls that returned, for this question
  storeLog,        \* execute_sql calls of this question: command and result
  qstart,          \* length of messages when the inner loop was entered
  asked,           \* questions asked so far in the session
  repertoire,      \* the two replies the model gives in this session
  mood,            \* which of the two it is giving at present
  switches         \* how often it has changed from one to the other

vars == <<messages, total_queries, assistant_reply, sql_queries, next_query,
          printed, db, pc, status, calls, storeLog, qstart, asked,
          repertoire, mood, switches>>

\* the variables of the language model's side
oracle == <<repertoire, mood, switches>>

(* ---------------------------------------------------------------------- *)
(* Bounds                                                                  *)
(* ---------------------------------------------------------------------- *)

\* number of questions the user asks in one session before typing exit
MaxQuestions == 2

\* number of times the language model changes from one reply of its
\* repertoire to the other in one session
MaxSwitches == 1

(* ---------------------------------------------------------------------- *)
(* Program constants                                                       *)
(* ---------------------------------------------------------------------- *)

\* the attempt budget of the inner loop: "if total_queries > 5"
MaxAttempts == 5

\* the literal "FINAL ANSWER:"
FinalMarker == <<"F","I","N","A","L"," ","A","N","S","W","E","R",":">>

\* the backquote character (written as a two-letter atom)
Bq == "bq"

\* the regular expression of extract_sql: three backquotes and sql open a
\* block, three backquotes close it
SqlOpen == <<Bq, Bq, Bq, "s", "q", "l">>
Fence == <<Bq, Bq, Bq>>

\* the fixed give-up line printed when the budget is exhausted
GiveUpText == <<"I","'","m"," ","s","o","r","r","y",","," ","b","u","t"," ",
                "I"," ","c","o","u","l","d","n","'","t"," ","f","i","n","d",
                " ","a","n"," ","a","n","s","w","e","r",".">>

None == <<"None">>

(* ---------------------------------------------------------------------- *)
(* Python string operations, on sequences of characters                    *)
(* ---------------------------------------------------------------------- *)

\* the characters str.strip() removes (those that occur in the texts below)
Whitespace == {" ", "\n", "\t"}

RECURSIVE LStrip(_)
LStrip(s) ==
  IF s # <<>> /\ Head(s) \in Whitespace THEN LStrip(Tail(s)) ELSE s

RECURSIVE RStrip(_)
RStrip(s) ==
  IF s # <<>> /\ s[Len(s)] \in Whitespace
  THEN RStrip(SubSeq(s, 1, Len(s) - 1)) ELSE s

\* str.strip()
Strip(s) == RStrip(LStrip(s))

\* str.startswith(p)
StartsWith(s, p) == Len(s) >= Len(p) /\ SubSeq(s, 1, Len(p)) = p

\* s[i:] for a 1-based position i
From(s, i) == SubSeq(s, i, Len(s))

\* str.find(p): the first 1-based position where p occurs in s, 0 when none
Find(s, p) ==
  LET hits == {i \in 1..(Len(s) - Len(p) + 1) : SubSeq(s, i, i + Len(p) - 1) = p}
  IN IF hits = {} THEN 0 ELSE CHOOSE i \in hits : \A j \in hits : i <= j

\* str.replace(old, "", 1): the first occurrence of old is removed
ReplaceFirst(s, old) ==
  LET i == Find(s, old)
  IN IF i = 0 THEN s
     ELSE SubSeq(s, 1, i - 1) \o From(s, i + Len(old))

\* str.lower(), for the letters the user inputs below are written with
LowerChar(c) ==
  CASE c = "E" -> "e" [] c = "X" -> "x" [] c = "I" -> "i" [] c = "T" -> "t"
    [] c = "Q" -> "q" [] c = "U" -> "u" [] OTHER -> c

Lower(s) == [i \in 1..Len(s) |-> LowerChar(s[i])]

\* re.findall(pattern, text, re.DOTALL): leftmost non-overlapping
\* matches, each group lazily extended to the nearest closing fence
RECURSIVE FindAll(_)
FindAll(text) ==
  LET i == Find(text, SqlOpen)
  IN IF i = 0 THEN <<>>
     ELSE LET rest == From(text, i + Len(SqlOpen))
              j == Find(rest, Fence)
          IN IF j = 0
             THEN FindAll(From(text, i + 1))
             ELSE <<SubSeq(rest, 1, j - 1)>> \o FindAll(From(rest, j + Len(Fence)))

\* extract_sql(text)
extract_sql(text) ==
  LET m == FindAll(text) IN [k \in 1..Len(m) |-> Strip(m[k])]

(* ---------------------------------------------------------------------- *)
(* Python str() of a query result                                          *)
(* ---------------------------------------------------------------------- *)

Digit(n) == CASE n = 0 -> "0" [] n = 1 -> "1" [] n = 2 -> "2" [] n = 3 -> "3"
              [] n = 4 -> "4" [] n = 5 -> "5" [] n = 6 -> "6" [] n = 7 -> "7"
              [] n = 8 -> "8" [] OTHER -> "9"

\* str(n) for 0 <= n <= 99
StrInt(n) == IF n < 10 THEN <<Digit(n)>> ELSE <<Digit(n \div 10), Digit(n % 10)>>

RECURSIVE JoinComma(_)
JoinComma(parts) ==
  IF parts = <<>> THEN <<>>
  ELSE IF Len(parts) = 1 THEN parts[1]
  ELSE parts[1] \o <<",", " ">> \o JoinComma(Tail(parts))

\* str(t) of a tuple of integers: (1,) and (1, 2)
StrTuple(t) ==
  IF Len(t) = 1 THEN <<"(">> \o StrInt(t[1]) \o <<",", ")">>
  ELSE <<"(">> \o JoinComma([k \in 1..Len(t) |-> StrInt(t[k])]) \o <<")">>

\* str(rows) of a list of tuples: [(1,), (2,)]
StrRows(rows) ==
  <<"[">> \o JoinComma([k \in 1..Len(rows) |-> StrTuple(rows[k])]) \o <<"]">>

\* f"Error: {e}"
ErrorPrefix == <<"E","r","r","o","r",":"," ">>
StrError(msg) == ErrorPrefix \o msg

\* str(result) at the append of the function message
StrResult(result) ==
  IF result.ok THEN StrRows(result.rows) ELSE result.text

(* ---------------------------------------------------------------------- *)
(* The environment: user, language model and database                      *)
(* ---------------------------------------------------------------------- *)

\* the content of the system message (instructions and schema), abbreviated
system_message == <<"s","y","s">>

\* what the user may type at the prompt
AskWho == <<"w","h","o">>
TypeExit == <<"e","x","i","t">>
TypeQuit == <<"Q","U","I","T">>
UserInputs == {AskWho, TypeExit, TypeQuit}

\* the statements the model may send to the database
SelectOne == <<"S","E","L","E","C","T"," ","1",";">>
Selec == <<"S","E","L","E","C"," ","1">>
DeleteAll == <<"D","E","L","E","T","E"," ","F","R","O","M"," ","t">>

\* the rows of the table before the session
InitialRows == <<<<1>>, <<2>>>>

\* the message of the exception sqlite raises for the statement it rejects:
\* near "SELEC": syntax error
SyntaxError == <<"n","e","a","r"," ","\"","S","E","L","E","C","\"",":"," ",
                 "s","y","n","t","a","x"," ","e","r","r","o","r">>

\* cur.execute(query); cur.fetchall() on the connection: the rows returned,
\* or the exception raised, and the rows of the table afterwards
SqlEngine(d, query) ==
  CASE query = SelectOne -> [raised |-> FALSE, rows |-> <<<<1>>>>, msg |-> <<>>, db |-> d]
    [] query = DeleteAll -> [raised |-> FALSE, rows |-> <<>>, msg |-> <<>>, db |-> <<>>]
    [] OTHER -> [raised |-> TRUE, rows |-> <<>>, msg |-> SyntaxError, db |-> d]

\* the replies the model may give
Final42 == <<"F","I","N","A","L"," ","A","N","S","W","E","R",":"," ","4","2">>
FinalEmpty == <<" ","F","I","N","A","L"," ","A","N","S","W","E","R",":"," ","\n">>
FinalWithBlock == <<"F","I","N","A","L"," ","A","N","S","W","E","R",":"," ","1"," ",Bq,
    Bq,Bq,"s","q","l"," ","S","E","L","E","C","T"," ","1",";",Bq,Bq,Bq>>
Plain == <<"h","m">>
LowerMarker == <<"F","i","n","a","l"," ","a","n","s","w","e","r",":"," ","4","2">>
MidMarker == <<"s","o"," ","F","I","N","A","L"," ","A","N","S","W","E","R",":"," ",
    "4","2">>
OneBlock == <<Bq,Bq,Bq,"s","q","l","\n","S","E","L","E","C","T"," ","1",";","\n",
    Bq,Bq,Bq>>
BadBlock == <<Bq,Bq,Bq,"s","q","l"," ","S","E","L","E","C"," ","1",Bq,Bq,Bq>>
TwoBlocks == <<Bq,Bq,Bq,"s","q","l"," ","S","E","L","E","C"," ","1",Bq,Bq,Bq," ",Bq,Bq,Bq,
    "s","q","l"," ","S","E","L","E","C","T"," ","1",";",Bq,Bq,Bq>>
DeleteBlock == <<Bq,Bq,Bq,"s","q","l"," ","D","E","L","E","T","E"," ","F","R","O",
    "M"," ","t",Bq,Bq,Bq>>
UntaggedBlock == <<Bq,Bq,Bq," ","S","E","L","E","C","T"," ","1",";",Bq,Bq,Bq>>

Replies == {Final42, FinalEmpty, FinalWithBlock, Plain, LowerMarker, MidMarker,
            OneBlock, BadBlock, TwoBlocks, DeleteBlock, UntaggedBlock}

\* extract_sql(reply) for each reply the language model may give, computed
\* once
Extracted == [reply \in Replies |-> extract_sql(reply)]

\* a session's language model answers with two replies (or one, twice)
Repertoires == Replies \X Replies

\* the replies call_gpt may return now
Offered ==
  {repertoire[mood]} \cup (IF switches < MaxSwitches THEN {repertoire[3 - mood]} ELSE {})

\* the language model has answered with reply
Answered(reply) ==
  /\ mood' = IF reply = repertoire[mood] THEN mood ELSE 3 - mood
  /\ switches' = IF reply = repertoire[mood] THEN switches ELSE switches + 1
  /\ UNCHANGED repertoire

(* ---------------------------------------------------------------------- *)
(* execute_sql and the pieces of main()                                    *)
(* ---------------------------------------------------------------------- *)

\* execute_sql(conn, query): the rows, or the text "Error: ..." when the
\* statement raised; db is the table after the call
execute_sql(d, query) ==
  LET r == SqlEngine(d, query)
  IN IF r.raised
     THEN [ok |-> FALSE, rows |-> <<>>, text |-> StrError(r.msg), db |-> r.db]
     ELSE [ok |-> TRUE, rows |-> r.rows, text |-> <<>>, db |-> r.db]

SystemTurn(text) == [role |-> "system", content |-> text]
UserTurn(text) == [role |-> "user", content |-> text]
AssistantTurn(text) == [role |-> "assistant", content |-> text]
FunctionTurn(text) == [role |-> "function", name |-> "sql", content |-> text]

\* user_input.lower() in ["exit", "quit"]
IsExit(user_input) == Lower(user_input) \in {Lower(TypeExit), Lower(TypeQuit)}

\* the budget test written with >= : one attempt short
BudgetSpentEarly(n) == n >= MaxAttempts

\* total_queries > 5, tested after the increment
BudgetSpent(n) == n > MaxAttempts

\* the marker honoured only in a reply that holds no query
IsFinalWithoutQueries(reply) ==
  StartsWith(Strip(reply), FinalMarker) /\ Extracted[reply] = <<>>

\* assistant_reply.strip().startswith("FINAL ANSWER:")
IsFinal(reply) == StartsWith(Strip(reply), FinalMarker)

\* the answer without the trailing strip()
FinalAnswerUntrimmed(reply) == ReplaceFirst(Strip(reply), FinalMarker)

\* assistant_reply.strip().replace("FINAL ANSWER:", "", 1).strip()
FinalAnswerOf(reply) == Strip(ReplaceFirst(Strip(reply), FinalMarker))

\* the for loop body with the result of a failed query left out
AfterQueryDropErrors(msgs, reply, result, last) ==
  LET withResult == IF result.ok
                    THEN Append(msgs, FunctionTurn(StrResult(result)))
                    ELSE msgs
  IN IF last THEN Append(withResult, AssistantTurn(reply)) ELSE withResult

\* the for loop body appending only the result of the last query
AfterQueryLastOnly(msgs, reply, result, last) ==
  IF last
  THEN Append(Append(msgs, FunctionTurn(StrResult(result))), AssistantTurn(reply))
  ELSE msgs

\* the messages after the function message of one executed query; after the
\* last query of the reply the assistant message is recorded as well
AfterQuery(msgs, reply, result, last) ==
  LET withResult == Append(msgs, FunctionTurn(StrResult(result)))
  IN IF last THEN Append(withResult, AssistantTurn(reply)) ELSE withResult

(* ---------------------------------------------------------------------- *)
(* The state machine of main()                                             *)
(* ---------------------------------------------------------------------- *)

Init ==
  /\ messages = <<SystemTurn(system_message)>>
  /\ total_queries = 0
  /\ assistant_reply = None
  /\ sql_queries = <<>>
  /\ next_query = 1
  /\ printed = None
  /\ db = InitialRows
  /\ pc = "input"
  /\ status = "Start"
  /\ calls = 0
  /\ storeLog = <<>>
  /\ qstart = 1
  /\ asked = 0
  /\ repertoire \in Repertoires
  /\ mood = 1
  /\ switches = 0

\* a question that goes on with the attempt counter of the one before
AskNoReset(user_input) ==
  /\ pc = "input"
  /\ ~IsExit(user_input)
  /\ asked < MaxQuestions
  /\ messages' = Append(messages, UserTurn(user_input))
  /\ pc' = "loop"
  /\ status' = "Exploring"
  /\ calls' = 0
  /\ storeLog' = <<>>
  /\ qstart' = Len(messages) + 1
  /\ printed' = None
  /\ asked' = asked + 1
  /\ UNCHANGED <<total_queries, assistant_reply, sql_queries, next_query, db,
                 oracle>>

\* a question that starts from a fresh history
AskFresh(user_input) ==
  /\ pc = "input"
  /\ ~IsExit(user_input)
  /\ asked < MaxQuestions
  /\ messages' = <<SystemTurn(system_message), UserTurn(user_input)>>
  /\ total_queries' = 0
  /\ pc' = "loop"
  /\ status' = "Exploring"
  /\ calls' = 0
  /\ storeLog' = <<>>
  /\ qstart' = 2
  /\ printed' = None
  /\ asked' = asked + 1
  /\ UNCHANGED <<assistant_reply, sql_queries, next_query, db, oracle>>

\* the user types a question: it is appended and the inner loop is entered
Ask(user_input) ==
  /\ pc = "input"
  /\ ~IsExit(user_input)
  /\ asked < MaxQuestions
  /\ messages' = Append(messages, UserTurn(user_input))
  /\ total_queries' = 0
  /\ pc' = "loop"
  /\ status' = "Exploring"
  /\ calls' = 0
  /\ storeLog' = <<>>
  /\ qstart' = Len(messages) + 1
  /\ printed' = None
  /\ asked' = asked + 1
  /\ UNCHANGED <<assistant_reply, sql_queries, next_query, db, oracle>>

\* the user types exit or quit: the outer loop ends and conn is closed
Exit(user_input) ==
  /\ pc = "input"
  /\ IsExit(user_input)
  /\ pc' = "closed"
  /\ UNCHANGED <<messages, total_queries, assistant_reply, sql_queries,
                 next_query, printed, db, status, calls, storeLog, qstart,
                 asked, oracle>>

\* a give-up that is also recorded in the history
GiveUpRecorded ==
  /\ pc = "loop"
  /\ BudgetSpent(total_queries + 1)
  /\ total_queries' = total_queries + 1
  /\ printed' = GiveUpText
  /\ messages' = Append(messages, AssistantTurn(GiveUpText))
  /\ pc' = "input"
  /\ status' = "Exhausted"
  /\ UNCHANGED <<assistant_reply, sql_queries, next_query, db,
                 calls, storeLog, qstart, asked, oracle>>

\* a give-up that prints its line and stays in the inner loop
GiveUpContinue ==
  /\ pc = "loop"
  /\ BudgetSpent(total_queries + 1)
  /\ total_queries' = MaxAttempts + 1
  /\ printed' = GiveUpText
  /\ UNCHANGED <<messages, assistant_reply, sql_queries, next_query, db, pc,
                 status, calls, storeLog, qstart, asked, oracle>>

\* an iteration whose budget test fails: the give-up line is printed
GiveUp ==
  /\ pc = "loop"
  /\ BudgetSpent(total_queries + 1)
  /\ total_queries' = total_queries + 1
  /\ printed' = GiveUpText
  /\ pc' = "input"
  /\ status' = "Exhausted"
  /\ UNCHANGED <<messages, assistant_reply, sql_queries, next_query, db,
                 calls, storeLog, qstart, asked, oracle>>

\* a failed call taken for an empty reply, the loop going on
OracleFailsSwallowed ==
  /\ pc = "loop"
  /\ ~BudgetSpent(total_queries + 1)
  /\ total_queries' = total_queries + 1
  /\ messages' = Append(messages, AssistantTurn(<<>>))
  /\ status' = "Failed"
  /\ UNCHANGED <<assistant_reply, sql_queries, next_query, printed, pc,
                 db, calls, storeLog, qstart, asked, oracle>>

\* an iteration in which call_gpt raises: nothing in main() catches it
OracleFails ==
  /\ pc = "loop"
  /\ ~BudgetSpent(total_queries + 1)
  /\ total_queries' = total_queries + 1
  /\ pc' = "crashed"
  /\ status' = "Failed"
  /\ UNCHANGED <<messages, assistant_reply, sql_queries, next_query, printed,
                 db, calls, storeLog, qstart, asked, oracle>>

\* an iteration whose reply starts with the final marker
FinalAnswer(reply) ==
  /\ pc = "loop"
  /\ ~BudgetSpent(total_queries + 1)
  /\ IsFinal(reply)
  /\ total_queries' = total_queries + 1
  /\ calls' = calls + 1
  /\ assistant_reply' = reply
  /\ Answered(reply)
  /\ printed' = FinalAnswerOf(reply)
  /\ messages' = Append(messages, AssistantTurn(reply))
  /\ pc' = "input"
  /\ status' = "Resolved"
  /\ UNCHANGED <<sql_queries, next_query, db, storeLog, qstart, asked>>

\* an iteration whose reply is not final and holds queries: the for loop
\* over them is entered
RunQueries(reply) ==
  /\ pc = "loop"
  /\ ~BudgetSpent(total_queries + 1)
  /\ ~IsFinal(reply)
  /\ Extracted[reply] # <<>>
  /\ total_queries' = total_queries + 1
  /\ calls' = calls + 1
  /\ assistant_reply' = reply
  /\ Answered(reply)
  /\ sql_queries' = Extracted[reply]
  /\ next_query' = 1
  /\ pc' = "exec"
  /\ UNCHANGED <<messages, printed, db, status, storeLog, qstart, asked>>

\* a reply without query and marker that is not recorded
KeepRefiningSilent(reply) ==
  /\ pc = "loop"
  /\ ~BudgetSpent(total_queries + 1)
  /\ ~IsFinal(reply)
  /\ Extracted[reply] = <<>>
  /\ total_queries' = total_queries + 1
  /\ calls' = calls + 1
  /\ assistant_reply' = reply
  /\ Answered(reply)
  /\ sql_queries' = <<>>
  /\ UNCHANGED <<messages, next_query, printed, db, pc, status, storeLog,
                 qstart, asked>>

\* an iteration whose reply is not final and holds no query
KeepRefining(reply) ==
  /\ pc = "loop"
  /\ ~BudgetSpent(total_queries + 1)
  /\ ~IsFinal(reply)
  /\ Extracted[reply] = <<>>
  /\ total_queries' = total_queries + 1
  /\ calls' = calls + 1
  /\ assistant_reply' = reply
  /\ Answered(reply)
  /\ sql_queries' = <<>>
  /\ messages' = Append(messages, AssistantTurn(reply))
  /\ UNCHANGED <<next_query, printed, db, pc, status, storeLog, qstart,
                 asked>>

\* one pass of the for loop: the query is executed and its result appended;
\* after the last query the assistant message is appended and the inner loop
\* continues
ExecuteQuery ==
  /\ pc = "exec"
  /\ LET query == sql_queries[next_query]
         result == execute_sql(db, query)
         last == next_query = Len(sql_queries)
     IN /\ messages' = AfterQuery(messages, assistant_reply, result, last)
        /\ db' = result.db
        /\ storeLog' = Append(storeLog, [query |-> query, result |-> result])
        /\ next_query' = next_query + 1
        /\ pc' = IF last THEN "loop" ELSE "exec"
  /\ UNCHANGED <<total_queries, assistant_reply, sql_queries, printed, status,
                 calls, qstart, asked, oracle>>

Next ==
  \/ \E user_input \in UserInputs : Ask(user_input)
  \/ \E user_input \in UserInputs : Exit(user_input)
  \/ GiveUp
  \/ OracleFails
  \/ \E reply \in Offered : FinalAnswer(reply)
  \/ \E reply \in Offered : RunQueries(reply)
  \/ \E reply \in Offered : KeepRefining(reply)
  \/ ExecuteQuery

Spec == Init /\ [][Next]_vars

(* ---------------------------------------------------------------------- *)
(* Reading the transcript                                                  *)
(* ---------------------------------------------------------------------- *)

\* the turns appended for the current question after its user turn
QTurns == SubSeq(messages, qstart + 1, Len(messages))

RECURSIVE WithRole(_, _)
WithRole(turns, role) ==
  IF turns = <<>> THEN <<>>
  ELSE IF Head(turns).role = role
       THEN <<Head(turns)>> \o WithRole(Tail(turns), role)
       ELSE WithRole(Tail(turns), role)

Roles(turns) == [i \in 1..Len(turns) |-> turns[i].role]

IsPrefix(s, t) == Len(s) <= Len(t) /\ SubSeq(t, 1, Len(s)) = s

\* the text after trimming starts with the thirteen characters of the marker
MarkerFirst(text) ==
  LET t == Strip(text)
  IN Len(t) >= 13 /\ \A i \in 1..13 : t[i] = FinalMarker[i]

\* the text after trimming, without its first thirteen characters, trimmed
AfterMarker(text) ==
  LET t == Strip(text) IN Strip(SubSeq(t, 14, Len(t)))

(* ---------------------------------------------------------------------- *)
(* C1                                                                      *)
(* ---------------------------------------------------------------------- *)

\* C1 (state part): while a question is explored or resolved the attempt
\* counter equals the number of oracle calls made for it; there are never
\* more than 5 oracle calls; Exhausted is reached only with 5 calls made and
\* no reply of the question starting with the final marker; and when each of
\* the replies held one command and every command failed, the question's
\* turns are 5 Assistant turns and 5 Observations that carry the error text.
C1_State ==
  /\ status \in {"Exploring", "Resolved"} => total_queries = calls
  /\ calls <= 5
  /\ status = "Exhausted" =>
       /\ calls = 5
       /\ Len(WithRole(QTurns, "assistant")) = 5
       /\ \A i \in 1..Len(QTurns) :
            QTurns[i].role = "assistant" => ~MarkerFirst(QTurns[i].content)
       /\ ( /\ \A i \in 1..Len(QTurns) :
                 QTurns[i].role = "assistant" => Len(extract_sql(QTurns[i].content)) = 1
            /\ \A k \in 1..Len(storeLog) : ~storeLog[k].result.ok )
          => /\ Len(WithRole(QTurns, "function")) = 5
             /\ \A i \in 1..Len(QTurns) :
                  QTurns[i].role = "function" => IsPrefix(ErrorPrefix, QTurns[i].content)

\* C1 (step part): every oracle call adds exactly 1 to the attempt counter,
\* and from the top of the loop with 5 calls made the only step is the one
\* into Exhausted.
C1_Step ==
  /\ calls' = calls + 1 => total_queries' = total_queries + 1
  /\ (pc = "loop" /\ calls = 5) => status' = "Exhausted"

\* C1: the attempt counter grows by 1 per oracle call and the controller
\* reaches Exhausted exactly when 5 oracle calls were made without a final
\* marker: never a 6th call, never Exhausted after fewer than 5.
C1_AttemptBudget == []C1_State /\ [][C1_Step]_vars

\* five replies with one failing command each, and the budget exhausted
C1_Witness ==
  /\ status = "Exhausted"
  /\ calls = 5
  /\ Len(storeLog) = 5
  /\ \A k \in 1..5 : ~storeLog[k].result.ok
  /\ Len(WithRole(QTurns, "function")) = 5

(* ---------------------------------------------------------------------- *)
(* C2                                                                      *)
(* ---------------------------------------------------------------------- *)

\* C2 (step): an oracle call whose reply starts, after trimming, with the
\* marker resolves the question on that call, and the answer is the reply
\* without the leading marker, trimmed (the empty string when nothing is
\* left); a first reply FINAL ANSWER: 42 gives 42 with one Assistant turn
\* and no Observation.
C2_Step ==
  (calls' = calls + 1 /\ MarkerFirst(assistant_reply')) =>
     /\ status' = "Resolved"
     /\ pc' = "input"
     /\ printed' = AfterMarker(assistant_reply')
     /\ (assistant_reply' = FinalEmpty => printed' = <<>>)
     /\ (calls' = 1 /\ assistant_reply' = Final42) =>
          /\ printed' = <<"4", "2">>
          /\ SubSeq(messages', qstart' + 1, Len(messages')) = <<AssistantTurn(Final42)>>

\* C2: a reply that starts with FINAL ANSWER: after trimming resolves the
\* question at once with the text after the marker, trimmed, as the answer.
C2_FinalAnswer == [][C2_Step]_vars

\* a question resolved by FINAL ANSWER: 42, then one resolved by a reply
\* that is only the marker
C2_Witness ==
  /\ asked = 2
  /\ status = "Resolved"
  /\ assistant_reply = FinalEmpty
  /\ printed = <<>>
  /\ messages[3] = AssistantTurn(Final42)
  /\ Len(messages) = 5

(* ---------------------------------------------------------------------- *)
(* C3 and C4                                                               *)
(* ---------------------------------------------------------------------- *)

\* C3: at every point the Assistant turns appended for the question are as
\* many as the oracle calls that returned for it, the last of them holding
\* the last reply verbatim.
C3_AssistantPerCall ==
  status \in {"Exploring", "Resolved", "Exhausted"} =>
    LET said == WithRole(QTurns, "assistant")
    IN /\ Len(said) = calls
       /\ calls > 0 => said[calls].content = assistant_reply

\* C4: every Observation comes after the Assistant turn whose reply held its
\* command, with only Observations in between; one block and then a final
\* reply leave Assistant, Observation, Assistant.
C4_ObservationAfterAssistant ==
  /\ \A i \in 1..Len(QTurns) :
       QTurns[i].role = "function" =>
         \E j \in 1..(i - 1) :
           /\ QTurns[j].role = "assistant"
           /\ extract_sql(QTurns[j].content) # <<>>
           /\ \A k \in (j + 1)..i : QTurns[k].role = "function"
  /\ (status = "Resolved" /\ calls = 2 /\ Len(storeLog) = 1) =>
       Roles(QTurns) = <<"assistant", "function", "assistant">>

(* ---------------------------------------------------------------------- *)
(* C5                                                                      *)
(* ---------------------------------------------------------------------- *)

EndsWith(s, p) == Len(s) >= Len(p) /\ SubSeq(s, Len(s) - Len(p) + 1, Len(s)) = p

\* C5 (step): a step in which a command fails appends an Observation that
\* carries the error text, leaves the question in Exploring, and goes on to
\* the next command of the reply or, after the last, to the next iteration;
\* a step from inside the for loop always executes the command that is next.
C5_Step ==
  /\ ( /\ Len(storeLog') = Len(storeLog) + 1
       /\ ~storeLog'[Len(storeLog')].result.ok )
     => /\ Len(messages') > Len(messages)
        /\ IsPrefix(messages, messages')
        /\ messages'[Len(messages) + 1].role = "function"
        /\ EndsWith(messages'[Len(messages) + 1].content, SyntaxError)
        /\ status' = "Exploring"
        /\ next_query < Len(sql_queries) => (pc' = "exec" /\ next_query' = next_query + 1)
        /\ next_query = Len(sql_queries) => pc' = "loop"
  /\ pc = "exec"
     => /\ Len(storeLog') = Len(storeLog) + 1
        /\ storeLog'[Len(storeLog')].query = sql_queries[next_query]

\* C5: a failing command never aborts the loop; its error is appended as an
\* Observation, the other commands of the reply are still executed and the
\* controller goes on exploring.
C5_StoreFailure == [][C5_Step]_vars

\* a reply of two commands, the first failed and the second executed after
\* it, and the loop back at its top
C5_Witness ==
  /\ pc = "loop"
  /\ status = "Exploring"
  /\ assistant_reply = TwoBlocks
  /\ Len(storeLog) = 2
  /\ ~storeLog[1].result.ok
  /\ storeLog[2].result.ok

(* ---------------------------------------------------------------------- *)
(* C6                                                                      *)
(* ---------------------------------------------------------------------- *)

\* the commands of the non-final replies recorded in the turns, in order
RECURSIVE CommandsOf(_)
CommandsOf(turns) ==
  IF turns = <<>> THEN <<>>
  ELSE (IF Head(turns).role = "assistant" /\ ~MarkerFirst(Head(turns).content)
        THEN extract_sql(Head(turns).content) ELSE <<>>)
       \o CommandsOf(Tail(turns))

\* the commands that are to have been executed for the question by now
ExpectedCommands ==
  CommandsOf(QTurns) \o
  (IF pc = "exec" THEN SubSeq(extract_sql(assistant_reply), 1, next_query - 1) ELSE <<>>)

\* C6: the commands executed for the question are those of its non-final
\* replies, each executed once and in extraction order, and the Observations
\* are as many as the executed commands, the i-th holding the result or the
\* error of the i-th executed command, at every point (so each Observation
\* is appended before the next command is executed).
C6_OneObservationPerCommand ==
  status \in {"Exploring", "Resolved", "Exhausted", "Failed"} =>
    LET seen == WithRole(QTurns, "function")
    IN /\ [i \in 1..Len(storeLog) |-> storeLog[i].query] = ExpectedCommands
       /\ Len(seen) = Len(storeLog)
       /\ \A i \in 1..Len(seen) :
            seen[i].content = IF storeLog[i].result.ok
                              THEN StrRows(storeLog[i].result.rows)
                              ELSE storeLog[i].result.text

\* a reply of two commands has been processed: two store calls in order and
\* two Observations
C6_Witness ==
  /\ pc = "loop"
  /\ calls = 1
  /\ assistant_reply = TwoBlocks
  /\ [i \in 1..Len(storeLog) |-> storeLog[i].query] = <<Selec, SelectOne>>
  /\ Len(WithRole(QTurns, "function")) = 2

(* ---------------------------------------------------------------------- *)
(* C7                                                                      *)
(* ---------------------------------------------------------------------- *)

\* C7 (step): an oracle call whose reply starts with the marker and holds a
\* tagged block makes no store call and appends only the Assistant turn, and
\* the question is Resolved.
C7_Step ==
  ( /\ calls' = calls + 1
    /\ MarkerFirst(assistant_reply')
    /\ Find(assistant_reply', SqlOpen) # 0 )
  => /\ storeLog' = storeLog
     /\ db' = db
     /\ messages' = Append(messages, AssistantTurn(assistant_reply'))
     /\ status' = "Resolved"
     /\ pc' = "input"

\* C7: the final marker has priority over command extraction.
C7_FinalBeforeCommands == [][C7_Step]_vars

\* a question resolved by a marker-first reply that holds a tagged block
C7_Witness ==
  /\ status = "Resolved"
  /\ assistant_reply = FinalWithBlock
  /\ extract_sql(assistant_reply) # <<>>
  /\ storeLog = <<>>
  /\ QTurns = <<AssistantTurn(FinalWithBlock)>>

(* ---------------------------------------------------------------------- *)
(* C8                                                                      *)
(* ---------------------------------------------------------------------- *)

\* C8 (state): in Exhausted what was reported is the give-up line, which is
\* no reply of the oracle and no answer taken from one, and no turn holds it.
C8_State ==
  status = "Exhausted" =>
    /\ printed = GiveUpText
    /\ \A r \in Replies : printed # r /\ printed # AfterMarker(r)
    /\ \A i \in 1..Len(messages) : messages[i].content # GiveUpText
    /\ pc \in {"input", "closed"}

\* C8 (step): the step into Exhausted and every step while Exhausted leave
\* the transcript, the oracle calls and the store calls as they were.
C8_Step ==
  status' = "Exhausted" =>
    /\ messages' = messages
    /\ calls' = calls
    /\ storeLog' = storeLog
    /\ db' = db

\* C8: Exhausted gives the fixed give-up result, no answer, no further call
\* and no turn.
C8_GiveUp == []C8_State /\ [][C8_Step]_vars

\* a question given up after five replies
C8_Witness ==
  /\ status = "Exhausted"
  /\ printed = GiveUpText
  /\ calls = 5
  /\ messages[Len(messages)] = AssistantTurn(assistant_reply)

(* ---------------------------------------------------------------------- *)
(* C9                                                                      *)
(* ---------------------------------------------------------------------- *)

\* C9 (state): after a failed oracle call the program has left main() with
\* the exception and no answer was reported for the question.
C9_State == status = "Failed" => (pc = "crashed" /\ printed = None)

\* C9 (step): the failed call appends no turn and counts as no completed
\* call, and nothing happens after it: no oracle call, no store call.
C9_Step ==
  /\ status' = "Failed" =>
       /\ messages' = messages
       /\ calls' = calls
       /\ storeLog' = storeLog
       /\ printed' = None
       /\ pc' = "crashed"
  /\ status # "Failed"

\* C9: a failed oracle call abandons the question with the error, with no
\* answer, no turn and no further call.
C9_OracleFailure == []C9_State /\ [][C9_Step]_vars

\* the oracle failed after a reply whose command had been executed
C9_Witness ==
  /\ status = "Failed"
  /\ pc = "crashed"
  /\ calls >= 1
  /\ Len(storeLog) >= 1
  /\ Len(WithRole(QTurns, "assistant")) = calls

(* ---------------------------------------------------------------------- *)
(* C10                                                                     *)
(* ---------------------------------------------------------------------- *)

\* C10 (state): the system turn is the first turn and the only system turn.
C10_State ==
  /\ messages[1] = SystemTurn(system_message)
  /\ \A i \in 2..Len(messages) : messages[i].role # "system"

\* C10 (step): every step leaves the transcript it found as a prefix of the
\* transcript it leaves.
C10_Step == IsPrefix(messages, messages')

\* C10: the transcript is append-only within and across questions, and its
\* single System turn stays first.
C10_AppendOnly == []C10_State /\ [][C10_Step]_vars

\* a second question has been explored on top of the turns of a first
C10_Witness ==
  /\ asked = 2
  /\ status = "Exhausted"
  /\ qstart > 2
  /\ Len(WithRole(messages, "user")) = 2
  /\ Len(WithRole(messages, "function")) >= 2

(* ---------------------------------------------------------------------- *)
(* extract_sql on its own: utterances built from segments                  *)
(* ---------------------------------------------------------------------- *)

\* the longest utterance, in segments
MaxSegments == 3

\* the pieces an utterance is made of: prose, a one-line and a several-line
\* block tagged sql, a block without tag, a block tagged py, a block tagged
\* sqlite, and prose that begins with the letters sql
SegProse == <<"a"," ">>
SegSqlLine == <<Bq,Bq,Bq,"s","q","l"," ","a",Bq,Bq,Bq>>
SegSqlLines == <<Bq,Bq,Bq,"s","q","l","\n","a","\n","b","\n",Bq,Bq,Bq>>
SegUntagged == <<Bq,Bq,Bq,"\n","a","\n",Bq,Bq,Bq>>
SegPython == <<Bq,Bq,Bq,"p","y","\n","a",Bq,Bq,Bq>>
SegSqlite == <<Bq,Bq,Bq,"s","q","l","i","t","e","\n","a",Bq,Bq,Bq>>
SegSqlWord == <<"s","q","l"," ","b"," ">>

Segments == {SegProse, SegSqlLine, SegSqlLines, SegUntagged, SegPython,
             SegSqlite, SegSqlWord}

RECURSIVE Concat(_)
Concat(parts) == IF parts = <<>> THEN <<>> ELSE Head(parts) \o Concat(Tail(parts))

\* the utterances the language model may produce
Utterances ==
  {Concat(parts) : parts \in UNION {[1..k -> Segments] : k \in 0..MaxSegments}}

\* the state before sql_queries = extract_sql(assistant_reply), for any
\* utterance as the reply
InitExtract ==
  /\ messages = <<SystemTurn(system_message), UserTurn(AskWho)>>
  /\ total_queries = 1
  /\ assistant_reply \in Utterances
  /\ sql_queries = <<>>
  /\ next_query = 1
  /\ printed = None
  /\ db = InitialRows
  /\ pc = "extract"
  /\ status = "Exploring"
  /\ calls = 1
  /\ storeLog = <<>>
  /\ qstart = 2
  /\ asked = 1
  /\ repertoire = <<Plain, Plain>>
  /\ mood = 1
  /\ switches = 0

\* sql_queries = extract_sql(assistant_reply)
Extract ==
  /\ pc = "extract"
  /\ sql_queries' = extract_sql(assistant_reply)
  /\ pc' = "extracted"
  /\ UNCHANGED <<messages, total_queries, assistant_reply, next_query, printed,
                 db, status, calls, storeLog, qstart, asked, oracle>>

NextExtract == Extract

SpecExtract == InitExtract /\ [][NextExtract]_vars

(* ---------------------------------------------------------------------- *)
(* The fenced blocks of an utterance, read as markdown                     *)
(* ---------------------------------------------------------------------- *)

\* the characters of s before its first whitespace (the tag of a block)
RECURSIVE TagOf(_)
TagOf(s) ==
  IF s = <<>> \/ Head(s) \in Whitespace THEN <<>>
  ELSE <<Head(s)>> \o TagOf(Tail(s))

\* the fenced blocks of text, left to right: fences pair up as opening and
\* closing fence; each block has the tag that follows its opening fence and
\* the interior between the tag and its closing fence
RECURSIVE FencedBlocks(_)
FencedBlocks(text) ==
  LET i == Find(text, Fence)
  IN IF i = 0 THEN <<>>
     ELSE LET rest == From(text, i + 3)
              j == Find(rest, Fence)
          IN IF j = 0 THEN <<>>
             ELSE LET body == SubSeq(rest, 1, j - 1)
                      tag == TagOf(body)
                  IN <<[tag |-> tag, interior |-> From(body, Len(tag) + 1)]>>
                     \o FencedBlocks(From(rest, j + 3))

RECURSIVE SqlInteriors(_)
SqlInteriors(blocks) ==
  IF blocks = <<>> THEN <<>>
  ELSE (IF Head(blocks).tag = <<"s", "q", "l">>
        THEN <<Strip(Head(blocks).interior)>> ELSE <<>>)
       \o SqlInteriors(Tail(blocks))

\* the trimmed interiors of the blocks of text tagged sql, in order
TaggedSqlBlocks(text) == SqlInteriors(FencedBlocks(text))

(* ---------------------------------------------------------------------- *)
(* C11 and C12                                                             *)
(* ---------------------------------------------------------------------- *)

\* C11: for every utterance, extract_sql returns the trimmed interiors of
\* its blocks tagged sql: as many strings as there are such blocks, in their
\* order, embedded newlines kept.
C11_ExtractsTaggedBlocks ==
  pc = "extracted" => sql_queries = TaggedSqlBlocks(assistant_reply)

\* C12: for every utterance without a block tagged exactly sql, extract_sql
\* returns the empty sequence, also when it holds untagged blocks, text that
\* begins with sql right after a closing fence, or blocks with another tag.
C12_NothingWithoutTaggedBlock ==
  (pc = "extracted" /\ TaggedSqlBlocks(assistant_reply) = <<>>) => sql_queries = <<>>

(* ---------------------------------------------------------------------- *)
(* C13                                                                     *)
(* ---------------------------------------------------------------------- *)

\* C13: whenever the commands of a reply have been executed, the table holds
\* the rows it held before the question started (before the first question
\* these are InitialRows, so the same rows at every such point), whatever the
\* statements in the replies.
C13_CorpusUnchanged ==
  (status \in {"Exploring", "Resolved", "Exhausted", "Failed"} /\ pc # "exec")
    => db = InitialRows

(* ---------------------------------------------------------------------- *)
(* C14                                                                     *)
(* ---------------------------------------------------------------------- *)

\* C14: the Observation of a failed command carries the command that was
\* executed and the error message; the Observation of a successful command
\* carries the rows returned, in order.
C14_ObservationContent ==
  LET seen == WithRole(QTurns, "function")
  IN \A i \in 1..Len(seen) :
       i <= Len(storeLog) =>
         IF storeLog[i].result.ok
         THEN seen[i].content = StrRows(storeLog[i].result.rows)
         ELSE /\ Find(seen[i].content, storeLog[i].query) # 0
              /\ Find(seen[i].content, SyntaxError) # 0

(* ---------------------------------------------------------------------- *)
(* C15                                                                     *)
(* ---------------------------------------------------------------------- *)

\* the question's turns are n Assistant turns whose replies hold neither the
\* marker at their start nor a command
OnlyIdleReplies(n) ==
  /\ Len(QTurns) = n
  /\ \A i \in 1..n :
       /\ QTurns[i].role = "assistant"
       /\ ~MarkerFirst(QTurns[i].content)
       /\ extract_sql(QTurns[i].content) = <<>>

\* C15 (step): an oracle call whose reply does not start with the marker and
\* yields no command makes no store call, appends the Assistant turn and
\* nothing else, leaves the question in Exploring at the top of the loop and
\* uses up one attempt; after five such replies the next step is the one
\* into Exhausted.
C15_Step ==
  /\ ( /\ calls' = calls + 1
       /\ ~MarkerFirst(assistant_reply')
       /\ extract_sql(assistant_reply') = <<>> )
     => /\ storeLog' = storeLog
        /\ db' = db
        /\ messages' = Append(messages, AssistantTurn(assistant_reply'))
        /\ status' = "Exploring"
        /\ pc' = "loop"
        /\ total_queries' = total_queries + 1
  /\ (pc = "loop" /\ OnlyIdleReplies(5)) => status' = "Exhausted"

\* C15: a reply with neither marker nor command costs an attempt and adds
\* only its Assistant turn; five in a row exhaust the question.
C15_IdleReply == [][C15_Step]_vars

\* a question exhausted by five replies without marker and command
C15_Witness ==
  /\ status = "Exhausted"
  /\ OnlyIdleReplies(5)
  /\ storeLog = <<>>
  /\ total_queries = 6

(* ---------------------------------------------------------------------- *)
(* Sessions in which every call returns                                    *)
(* ---------------------------------------------------------------------- *)

\* the next step of main() inside a question: an iteration of the inner
\* loop or a pass of the for loop
Iterate ==
  \/ GiveUp
  \/ \E reply \in Offered : FinalAnswer(reply)
  \/ \E reply \in Offered : RunQueries(reply)
  \/ \E reply \in Offered : KeepRefining(reply)
  \/ ExecuteQuery

\* the steps of a session in which call_gpt always returns a reply
NextReturning ==
  \/ \E user_input \in UserInputs : Ask(user_input)
  \/ \E user_input \in UserInputs : Exit(user_input)
  \/ Iterate

\* main() is sequential code: once in the inner loop, and with every call
\* returning, it always takes its next step; the user may stay silent
SpecLive == Init /\ [][NextReturning]_vars /\ WF_vars(Iterate)

(* ---------------------------------------------------------------------- *)
(* C16                                                                     *)
(* ---------------------------------------------------------------------- *)

\* C16 (step): Exploring is left only into Resolved, by an oracle call whose
\* reply starts with the marker, or into Exhausted, with the five calls of
\* the budget made and no further call.
C16_Step ==
  (status = "Exploring" /\ status' # "Exploring") =>
     \/ status' = "Resolved" /\ calls' = calls + 1 /\ MarkerFirst(assistant_reply')
     \/ status' = "Exhausted" /\ calls = 5 /\ calls' = calls

\* C16: when every oracle call and every store call returns, a question
\* that is being explored is eventually Resolved or Exhausted, and those are
\* the only two ways out of Exploring.
C16_Terminates ==
  /\ (status = "Exploring") ~> (status \in {"Resolved", "Exhausted"})
  /\ [][C16_Step]_vars

\* a question resolved on the last call of its budget, after queries
C16_Witness ==
  /\ status = "Resolved"
  /\ calls = 5
  /\ Len(storeLog) >= 4

(* ---------------------------------------------------------------------- *)
(* C17                                                                     *)
(* ---------------------------------------------------------------------- *)

\* C17 (state): the transcript holds one User turn per question asked, none
\* of them after the first oracle call of its question; no question has
\* more than 5 oracle calls, and none is Exhausted with fewer.
C17_State ==
  /\ Len(WithRole(messages, "user")) = asked
  /\ asked > 0 => (messages[qstart].role = "user" /\ WithRole(QTurns, "user") = <<>>)
  /\ calls <= 5
  /\ status = "Exhausted" => calls = 5

\* C17 (step): a new question appends its User turn to all the turns there
\* are and starts with the attempt counter at 0 and no oracle call made;
\* the turns of the questions before stay; and a question is given up only
\* with its own 5 calls made.
C17_Step ==
  /\ asked' = asked + 1 =>
       /\ \E user_input \in UserInputs : messages' = Append(messages, UserTurn(user_input))
       /\ total_queries' = 0
       /\ calls' = 0
       /\ status' = "Exploring"
  /\ asked' = asked => SubSeq(messages', 1, qstart) = SubSeq(messages, 1, qstart)
  /\ (status = "Exploring" /\ status' = "Exhausted") => calls = 5

\* C17: every question of a session gets one User turn, an attempt counter
\* that starts at 0 and so its own budget of 5 oracle calls, on top of the
\* turns of the questions before it.
C17_BudgetPerQuestion == []C17_State /\ [][C17_Step]_vars

\* a second question exhausted with its own five calls after a first
\* question that used up five as well
C17_Witness ==
  /\ asked = 2
  /\ status = "Exhausted"
  /\ calls = 5
  /\ Len(WithRole(messages, "assistant")) = 10
  /\ Len(WithRole(messages, "user")) = 2

====
